---- MODULE Spec2Model ----
(***************************************************************************)
(* Model of the three utility scripts of the repository:                   *)
(*   parse_logs.py      the log scanner                                    *)
(*   export_to_onnx.py  the graph-to-interchange converter                 *)
(*   inspect_pb.py      the graph inspector                                *)
(* One behaviour is a sequence of runs of one script against a file        *)
(* system that only the scripts themselves may change.                     *)
(***************************************************************************)
EXTENDS Integers, Sequences, FiniteSets, TLC

\* ------------------------------------------------------------------ bounds
\* lines of arbitrary shape at the start of a log file
MaxHead == 2
\* most repetitions of one record at the end of a log file
MaxTail == 10
\* characters of the long exception text
LongLen == 201
\* nodes of a frozen graph
MaxNodes == 2

\* ------------------------------------------------------- program constants
\* parse_logs.py:18  if count >= 10: break
MatchCap == 10
\* parse_logs.py:29  entry['@x'][:200]
ExceptionChars == 200

Min(a, b) == IF a < b THEN a ELSE b

\* ------------------------------------------------------------ JSON values
\* A JSON value as Python sees it after json.loads: a str (its text a
\* sequence of tokens: words of a message, characters of an exception) or a
\* value that is neither a str nor a container (null, a number).
Str(text) == [type |-> "str", text |-> text]
None == [type |-> "null", text |-> <<>>]
Num(n) == [type |-> "num", text |-> <<ToString(n)>>]

\* One "key":value member as written in the raw line.  spaced: whitespace
\* was written after the colon; nested: the member sits inside an inner
\* object, not at the top level of the record.
Field(key, val) == [key |-> key, val |-> val, spaced |-> FALSE, nested |-> FALSE]
Spaced(key, val) == [key |-> key, val |-> val, spaced |-> TRUE, nested |-> FALSE]
Nested(key, val) == [key |-> key, val |-> val, spaced |-> FALSE, nested |-> TRUE]

\* A raw line of the log file.  wellformed: the text is a complete JSON
\* document; top: the kind of its outermost value; fields: the members
\* written in the text, in order.
Object(fields) == [wellformed |-> TRUE, top |-> "object", fields |-> fields]
Array(fields) == [wellformed |-> TRUE, top |-> "array", fields |-> fields]
Broken(fields) == [wellformed |-> FALSE, top |-> "object", fields |-> fields]

\* ------------------------------------------------------ the log scanner
\* '"@l":"Error"' in line: the marker is a substring of the raw text, at any
\* depth, well-formed or not, and only when written without whitespace.
HasMarker(line, lvl) ==
  \E i \in DOMAIN line.fields :
     /\ line.fields[i].key = "@l"
     /\ ~line.fields[i].spaced
     /\ line.fields[i].val = Str(<<lvl>>)

PreFilter(line) == HasMarker(line, "Error") \/ HasMarker(line, "Warning")

\* json.loads(line): raises on a malformed text; otherwise the outermost
\* value, an object holding its top-level members only.
TopLevel(f) == ~f.nested

json_loads(line) ==
  IF ~line.wellformed
    THEN [ok |-> FALSE, kind |-> "none", obj |-> <<>>]
    ELSE [ok |-> TRUE, kind |-> line.top, obj |-> SelectSeq(line.fields, TopLevel)]

\* '@x' in entry
Has(entry, key) == \E i \in DOMAIN entry : entry[i].key = key

\* entry.get(key, default): of a repeated key the last member wins.
Get(entry, key, default) ==
  IF Has(entry, key)
    THEN LET last == CHOOSE i \in DOMAIN entry :
                       /\ entry[i].key = key
                       /\ \A j \in DOMAIN entry : entry[j].key = key => j <= i
         IN entry[last].val
    ELSE default

\* 'Spotify' in msg, for a str msg
Contains(text, word) == \E i \in DOMAIN text : text[i] = word

\* s[:n]
Slice(s, n) == SubSeq(s, 1, Min(Len(s), n))

\* The lines a run prints.
Printed(kind, t, l, msg, n) == [kind |-> kind, t |-> t, l |-> l, msg |-> msg, n |-> n]
NotFoundLine == Printed("notfound", None, None, Str(<<"Log file not found">>), 0)
TotalLine(n) == Printed("total", None, None, None, n)
HeaderLine == Printed("header", None, None, Str(<<"Last 10 Errors/Warnings with 'Spotify':">>), 0)
MatchLine(t, l, msg) == Printed("match", t, l, msg, 0)
ExceptionLine(x) == Printed("exception", None, None, Str(Slice(x, ExceptionChars) \o <<"...">>), 0)

\* variant: the handler counts the failed line as a match
OnErrorCounted(o, c) == [out |-> o, count |-> c + 1]
\* except: pass
OnError(o, c) == [out |-> o, count |-> c]

\* One iteration of the loop body (parse_logs.py:19-32) on `line`, with the
\* output so far `o` and the match count `c`.
Iteration(line, o, c) ==
  IF ~PreFilter(line) THEN [out |-> o, count |-> c]
  ELSE LET r == json_loads(line) IN
    IF ~r.ok THEN OnError(o, c)                       \* json.loads raises
    ELSE IF r.kind # "object" THEN OnError(o, c)      \* entry.get: AttributeError
    ELSE LET entry == r.obj
             msg == Get(entry, "@mt", Str(<<>>))
         IN IF msg.type # "str" THEN OnError(o, c)    \* 'Spotify' in msg: TypeError
            ELSE IF ~Contains(msg.text, "Spotify") THEN [out |-> o, count |-> c]
            ELSE LET o1 == Append(o, MatchLine(Get(entry, "@t", None),
                                               Get(entry, "@l", None), msg))
                 IN IF ~Has(entry, "@x") THEN [out |-> o1, count |-> c + 1]
                    ELSE LET x == Get(entry, "@x", None) IN
                         IF x.type # "str" THEN OnError(o1, c)   \* [:200]: TypeError
                         ELSE [out |-> Append(o1, ExceptionLine(x.text)),
                               count |-> c + 1]

\* --------------------------------------------------------- log file content
\* The records a log file is built from; i is the line number, written as
\* the record's timestamp.  Each comment gives the raw text modelled.
Stamp(i) == Field("@t", Str(<<ToString(i)>>))
Level(l) == Field("@l", Str(<<l>>))
Template(words) == Field("@mt", Str(words))
ShortText == <<"b", "o", "o", "m">>
LongText == [i \in 1..LongLen |-> ToString(i % 10)]

\* {"@t":"i","@l":"Error","@mt":"Spotify auth failed"}
ErrSpotify(i) == Object(<<Stamp(i), Level("Error"), Template(<<"Spotify", "auth", "failed">>)>>)
\* {"@t":"i","@l":"Warning","@mt":"Retry Spotify search","@x":"<LongLen characters>"}
WarnSpotifyLongX(i) ==
  Object(<<Stamp(i), Level("Warning"), Template(<<"Retry", "Spotify", "search">>),
           Field("@x", Str(LongText))>>)
\* {"@t":"i","@l":"Error","@mt":"Spotify Reason {Reason}","@x":"boom"}
ErrSpotifyShortX(i) ==
  Object(<<Stamp(i), Level("Error"), Template(<<"Spotify", "Reason">>),
           Field("@x", Str(ShortText))>>)
\* {"@t":"i","@l":"Error","@mt":"Spotify auth failed","@x":null}
ErrSpotifyNullX(i) ==
  Object(<<Stamp(i), Level("Error"), Template(<<"Spotify", "auth", "failed">>),
           Field("@x", None)>>)
\* {"@t":"i","@l":"Information","@mt":"Spotify connected"}
InfoSpotify(i) == Object(<<Stamp(i), Level("Information"), Template(<<"Spotify", "connected">>)>>)
\* {"@t":"i","@l":"Error","@mt":"Download failed"}
ErrOther(i) == Object(<<Stamp(i), Level("Error"), Template(<<"Download", "failed">>)>>)
\* {"@t":"i","@l":"Error","@mt":"Spotify auth      (the line was cut short)
ErrTruncated(i) == Broken(<<Stamp(i), Level("Error"), Template(<<"Spotify", "auth">>)>>)
\* {"@t":"i","@l":"Information","@mt":"Spotify sync done","Last":{"@l":"Error"}}
InfoNestedMarker(i) ==
  Object(<<Stamp(i), Level("Information"), Template(<<"Spotify", "sync", "done">>),
           Nested("@l", Str(<<"Error">>))>>)
\* {"@t": "i", "@l": "Error", "@mt": "Spotify auth failed"}
ErrSpotifySpaced(i) ==
  Object(<<Spaced("@t", Str(<<ToString(i)>>)), Spaced("@l", Str(<<"Error">>)),
           Spaced("@mt", Str(<<"Spotify", "auth", "failed">>))>>)
\* {"@t":"i","@l":"Warning","@mt":404}
WarnNumberTemplate(i) == Object(<<Stamp(i), Level("Warning"), Field("@mt", Num(404))>>)
\* [{"@t":"i","@l":"Error","@mt":"Spotify auth failed"}]
ErrInArray(i) == Array(<<Nested("@t", Str(<<ToString(i)>>)), Nested("@l", Str(<<"Error">>)),
                         Nested("@mt", Str(<<"Spotify", "auth", "failed">>))>>)

Shapes == {"ErrSpotify", "WarnSpotifyLongX", "ErrSpotifyShortX", "ErrSpotifyNullX",
           "InfoSpotify", "ErrOther", "ErrTruncated", "InfoNestedMarker",
           "ErrSpotifySpaced", "WarnNumberTemplate", "ErrInArray"}
TailShapes == {"ErrSpotify", "ErrSpotifyNullX"}

Record(shape, i) ==
  CASE shape = "ErrSpotify" -> ErrSpotify(i)
    [] shape = "WarnSpotifyLongX" -> WarnSpotifyLongX(i)
    [] shape = "ErrSpotifyShortX" -> ErrSpotifyShortX(i)
    [] shape = "ErrSpotifyNullX" -> ErrSpotifyNullX(i)
    [] shape = "InfoSpotify" -> InfoSpotify(i)
    [] shape = "ErrOther" -> ErrOther(i)
    [] shape = "ErrTruncated" -> ErrTruncated(i)
    [] shape = "InfoNestedMarker" -> InfoNestedMarker(i)
    [] shape = "ErrSpotifySpaced" -> ErrSpotifySpaced(i)
    [] shape = "WarnNumberTemplate" -> WarnNumberTemplate(i)
    [] shape = "ErrInArray" -> ErrInArray(i)

\* The log files of the model: up to MaxHead records of any shape, alone or
\* followed by MatchCap - 1 to MaxTail repetitions of one record, so that
\* the scan, which starts at the end, stays below the cap, reaches it
\* exactly, or finds more matches than the cap.
Heads == UNION {[1..n -> Shapes] : n \in 0..MaxHead}
FileOf(head, tail, k) ==
  [i \in 1..(Len(head) + k) |-> IF i <= Len(head) THEN Record(head[i], i) ELSE Record(tail, i)]
LogContents ==
  {FileOf(head, tail, k) : head \in Heads, tail \in TailShapes,
                           k \in {0} \cup ((MatchCap - 1)..MaxTail)}
LogFiles == {[exists |-> TRUE, lines |-> c] : c \in LogContents}
             \cup {[exists |-> FALSE, lines |-> <<>>]}

\* ------------------------------------------------------- frozen graph file
\* A node of the graph: its name, its operation and the names of the
\* attributes it carries.
NodeNames == {"waveform", "waveform_vocals", "Waveform"}
Nodes == [name : NodeNames, op : {"Placeholder"}, attr : SUBSET {"shape", "dtype"}]
Graphs == UNION {[1..n -> Nodes] : n \in 0..MaxNodes}
\* exists: os.path.exists(pb_path); valid: ParseFromString accepts the bytes.
PbFiles == {[exists |-> TRUE, valid |-> TRUE, nodes |-> g] : g \in Graphs}
            \cup {[exists |-> TRUE, valid |-> FALSE, nodes |-> <<>>],
                  [exists |-> FALSE, valid |-> FALSE, nodes |-> <<>>]}

\* ------------------------------------------------------------------- state
VARIABLES
  script,   \* the script being run
  pc,       \* the position of the run in the script
  log,      \* logs/log20251226.json on disk
  pb,       \* spleeter-5s-3.pb on disk
  onnx,     \* spleeter-5stems.onnx exists on disk
  lines,    \* parse_logs.py: lines
  count,    \* parse_logs.py: count
  idx,      \* position of the loop over reversed(lines) / graph_def.node
  out,      \* what the run has printed on standard output
  status,   \* the exit status the process ends with
  graph_def,\* export_to_onnx.py, inspect_pb.py: the nodes of graph_def
  did,      \* what the run has done: "open", "parse", "convert", "converted"
            \* (from_graph_def returned), "write" (the output file was
            \* created), "raised" (an exception was raised)
  prev      \* standard output and exit status of the previous run

vars == <<script, pc, log, pb, onnx, lines, graph_def, count, idx, out, status, did, prev>>

Scripts == {"parse_logs", "export_to_onnx", "inspect_pb"}
NoLog == [exists |-> FALSE, lines |-> <<>>]
NoPb == [exists |-> FALSE, valid |-> FALSE, nodes |-> <<>>]

Init ==
  /\ script \in Scripts
  /\ log \in (IF script = "parse_logs" THEN LogFiles ELSE {NoLog})
  /\ pb \in (IF script = "parse_logs" THEN {NoPb} ELSE PbFiles)
  /\ onnx = FALSE
  /\ pc = "start"
  /\ lines = <<>>
  /\ graph_def = <<>>
  /\ count = 0
  /\ idx = 0
  /\ out = <<>>
  /\ status = 0
  /\ did = {}
  /\ prev = [has |-> FALSE, out |-> <<>>, status |-> 0]

\* --------------------------------------------------- parse_logs.py actions
\* variant: exit(1)
NotFoundExitFailing == [pc |-> "done", status |-> 1]
\* exit() after the not-found message: SystemExit(None), status 0
NotFoundExit == [pc |-> "done", status |-> 0]

\* if not os.path.exists(log_file): print(...); exit()
LogCheck ==
  /\ script = "parse_logs" /\ pc = "start"
  /\ IF ~log.exists
       THEN /\ out' = Append(out, NotFoundLine)
            /\ pc' = NotFoundExit.pc
            /\ status' = NotFoundExit.status
       ELSE /\ pc' = "read"
            /\ UNCHANGED <<out, status>>
  /\ UNCHANGED <<script, log, pb, onnx, lines, graph_def, count, idx, did, prev>>

\* variant: the run appends a record of its own to the log file
FileAfterReadAppended(f) == [f EXCEPT !.lines = Append(f.lines, Record("ErrSpotify", Len(f.lines) + 1))]
\* open(log_file, 'r'): reading leaves the file on disk as it was
FileAfterRead(f) == f

\* with open(...) as f: lines = f.readlines(); the two prints; count = 0
ReadLines ==
  /\ script = "parse_logs" /\ pc = "read"
  /\ did' = did \cup {"open"}
  /\ lines' = log.lines
  /\ log' = FileAfterRead(log)
  /\ out' = out \o <<TotalLine(Len(log.lines)), HeaderLine>>
  /\ count' = 0
  /\ idx' = Len(log.lines)
  /\ pc' = "scan"
  /\ UNCHANGED <<script, pb, onnx, graph_def, status, prev>>

\* if count >= 10: break
CapReached(c) == c >= MatchCap

\* one iteration of: for line in reversed(lines)
ScanLine ==
  /\ script = "parse_logs" /\ pc = "scan"
  /\ idx >= 1 /\ ~CapReached(count)
  /\ LET r == Iteration(lines[idx], out, count)
     IN out' = r.out /\ count' = r.count
  /\ idx' = idx - 1
  /\ UNCHANGED <<script, pc, log, pb, onnx, lines, graph_def, status, did, prev>>

\* the loop ends (break, or reversed(lines) is exhausted) and so does the script
ScanEnd ==
  /\ script = "parse_logs" /\ pc = "scan"
  /\ idx = 0 \/ CapReached(count)
  /\ pc' = "done"
  /\ UNCHANGED <<script, log, pb, onnx, lines, graph_def, count, idx, out, status, did, prev>>

\* ----------------------------------------------- export_to_onnx.py actions
Message(kind) == Printed(kind, None, None, None, 0)
LoadingLine == Message("Loading model from")
ModelNotFoundLine == Message("Error: Model file not found.")
LoadedLine == Message("Model loaded successfully. Converting to ONNX...")
CompleteLine == Message("Conversion complete!")
FailedLine == Message("Conversion failed")

\* variant: no existence check
PbMissingIgnored(f) == FALSE
\* if not os.path.exists(pb_path)
PbMissing(f) == ~f.exists

\* print(f"Loading model from: ..."); the existence check; sys.exit(1)
ConvCheck ==
  /\ script = "export_to_onnx" /\ pc = "start"
  /\ IF PbMissing(pb)
       THEN /\ out' = out \o <<LoadingLine, ModelNotFoundLine>>
            /\ pc' = "done"
            /\ status' = 1
       ELSE /\ out' = Append(out, LoadingLine)
            /\ pc' = "load"
            /\ UNCHANGED status
  /\ UNCHANGED <<script, log, pb, onnx, lines, graph_def, count, idx, did, prev>>

\* variant: the handler prints and falls off the end of the script
HandlerWithoutExit(o) == [out |-> Append(o, FailedLine), pc |-> "done", status |-> 0]
\* except Exception as e: print(f"Conversion failed: {e}"); sys.exit(1)
Handler(o) == [out |-> Append(o, FailedLine), pc |-> "done", status |-> 1]

\* GFile(pb_path, 'rb'), f.read(), ParseFromString: a file that is missing
\* or does not parse raises inside the try block.
ConvLoad ==
  /\ script = "export_to_onnx" /\ pc = "load"
  /\ IF pb.exists /\ pb.valid
       THEN /\ did' = did \cup {"open", "parse"}
            /\ graph_def' = pb.nodes
            /\ out' = Append(out, LoadedLine)
            /\ pc' = "convert"
            /\ UNCHANGED status
       ELSE /\ did' = did \cup {"open", "raised"} \cup (IF pb.exists THEN {"parse"} ELSE {})
            /\ out' = Handler(out).out
            /\ pc' = Handler(out).pc
            /\ status' = Handler(out).status
            /\ UNCHANGED graph_def
  /\ UNCHANGED <<script, log, pb, onnx, lines, count, idx, prev>>

\* tf2onnx.convert.from_graph_def(...): the library returns after writing
\* output_path, or raises, the output file written or not by then.
ConvConvert ==
  /\ script = "export_to_onnx" /\ pc = "convert"
  /\ \E result \in {"returned", "raised", "raised after writing"} :
       IF result = "returned"
         THEN /\ did' = did \cup {"convert", "converted", "write"}
              /\ onnx' = TRUE
              /\ out' = Append(out, CompleteLine)
              /\ pc' = "done"
              /\ UNCHANGED status
         ELSE /\ did' = did \cup {"convert", "raised"}
                           \cup (IF result = "raised after writing" THEN {"write"} ELSE {})
              /\ onnx' = (onnx \/ result = "raised after writing")
              /\ out' = Handler(out).out
              /\ pc' = Handler(out).pc
              /\ status' = Handler(out).status
  /\ UNCHANGED <<script, log, pb, lines, graph_def, count, idx, prev>>

\* --------------------------------------------------- inspect_pb.py actions
\* variant: node.name.startswith("waveform")
NameMatchesPrefix(name) == name \in {"waveform", "waveform_vocals"}
\* if node.name == "waveform"
NameMatches(name) == name = "waveform"

NodeLine(node) == Printed("Node", None, None, Str(<<node.name>>), 0)
OpLine(node) == Printed("Op", None, None, Str(<<node.op>>), 0)
AttrLine(kind) == Printed(kind, None, None, None, 0)

\* the body of: for node in graph_def.node
NodeOutput(node) ==
  IF NameMatches(node.name)
    THEN <<NodeLine(node), OpLine(node)>>
           \o (IF "shape" \in node.attr THEN <<AttrLine("Shape")>> ELSE <<>>)
           \o (IF "dtype" \in node.attr THEN <<AttrLine("Dtype")>> ELSE <<>>)
    ELSE <<>>

\* GFile(pb_path, 'rb'), f.read(), ParseFromString, outside any try: a file
\* that is missing or does not parse ends the run with a traceback.
InspLoad ==
  /\ script = "inspect_pb" /\ pc = "start"
  /\ IF pb.exists /\ pb.valid
       THEN /\ did' = did \cup {"open", "parse"}
            /\ graph_def' = pb.nodes
            /\ idx' = 1
            /\ pc' = "nodes"
            /\ UNCHANGED status
       ELSE /\ did' = did \cup {"open", "raised"} \cup (IF pb.exists THEN {"parse"} ELSE {})
            /\ pc' = "done"
            /\ status' = 1
            /\ UNCHANGED <<graph_def, idx>>
  /\ UNCHANGED <<script, log, pb, onnx, lines, count, out, prev>>

InspNode ==
  /\ script = "inspect_pb" /\ pc = "nodes"
  /\ idx <= Len(graph_def)
  /\ out' = out \o NodeOutput(graph_def[idx])
  /\ idx' = idx + 1
  /\ UNCHANGED <<script, pc, log, pb, onnx, lines, graph_def, count, status, did, prev>>

InspEnd ==
  /\ script = "inspect_pb" /\ pc = "nodes"
  /\ idx > Len(graph_def)
  /\ pc' = "done"
  /\ UNCHANGED <<script, log, pb, onnx, lines, graph_def, count, idx, out, status, did, prev>>

\* ------------------------------------------------------------ the next run
\* The script is started again: a new process, the files as the last run
\* left them.
Restart ==
  /\ pc = "done"
  /\ prev' = [has |-> TRUE, out |-> out, status |-> status]
  /\ pc' = "start"
  /\ lines' = <<>>
  /\ graph_def' = <<>>
  /\ count' = 0
  /\ idx' = 0
  /\ out' = <<>>
  /\ status' = 0
  /\ did' = {}
  /\ UNCHANGED <<script, log, pb, onnx>>

Next ==
  \/ LogCheck \/ ReadLines \/ ScanLine \/ ScanEnd
  \/ ConvCheck \/ ConvLoad \/ ConvConvert
  \/ InspLoad \/ InspNode \/ InspEnd
  \/ Restart

Spec == Init /\ [][Next]_vars

\* ================================================================== claims
IsMatch(p) == p.kind = "match"
MatchLines(o) == SelectSeq(o, IsMatch)
ErrorOrWarning == {Str(<<"Error">>), Str(<<"Warning">>)}
Scanning == script = "parse_logs" /\ pc \in {"scan", "done"} /\ log.exists

\* The line of `lines` a printed match line shows (timestamps are line numbers).
LineShown(p) == CHOOSE i \in DOMAIN lines : Get(json_loads(lines[i]).obj, "@t", None) = p.t

\* C1: a run of the log scanner never prints more than 10 match lines,
\* whatever the log file holds.
C1_AtMostTenMatches ==
  script = "parse_logs" => Len(MatchLines(out)) <= MatchCap

\* A record of level Error or Warning whose message contains 'Spotify'.
Qualifies(line) ==
  LET r == json_loads(line) IN
    /\ r.ok /\ r.kind = "object"
    /\ Get(r.obj, "@l", None) \in ErrorOrWarning
    /\ Get(r.obj, "@mt", None).type = "str"
    /\ Contains(Get(r.obj, "@mt", None).text, "Spotify")
Q == {i \in DOMAIN log.lines : Qualifies(log.lines[i])}
KthLast(S, k) == CHOOSE i \in S : Cardinality({j \in S : j > i}) = k - 1
ShownAsMatch(line) ==
  LET e == json_loads(line).obj IN MatchLine(Get(e, "@t", None), Get(e, "@l", None), Get(e, "@mt", None))

\* C2: the match lines of a finished run are exactly the last min(10, |Q|)
\* lines of Q, most recent first, Q being the lines whose record has level
\* Error or Warning and whose message contains 'Spotify'.
C2_LastQualifyingReversed ==
  (script = "parse_logs" /\ pc = "done" /\ log.exists) =>
     /\ Len(MatchLines(out)) = Min(MatchCap, Cardinality(Q))
     /\ \A k \in 1..Len(MatchLines(out)) :
          k <= Cardinality(Q) => MatchLines(out)[k] = ShownAsMatch(log.lines[KthLast(Q, k)])

\* C3: a line that passes the severity pre-filter and fails json.loads is
\* skipped silently: the iteration prints nothing, leaves the match count
\* and the exit status alone, and the scan goes on with the line before it.
C3_MalformedSkipped ==
  [][(/\ script = "parse_logs" /\ pc = "scan"
      /\ idx >= 1 /\ count < MatchCap
      /\ PreFilter(lines[idx])
      /\ ~json_loads(lines[idx]).ok)
     => (/\ out' = out
         /\ count' = count
         /\ status' = status
         /\ pc' = "scan"
         /\ idx' = idx - 1)]_vars

\* C3 witness: a malformed line that passed the pre-filter was scanned, and
\* a line before it in the file was printed as a match afterwards.
C3_Witness ==
  /\ Scanning
  /\ \E j \in DOMAIN lines :
       /\ j > idx /\ PreFilter(lines[j]) /\ ~json_loads(lines[j]).ok
       /\ \E p \in DOMAIN out : IsMatch(out[p]) /\ LineShown(out[p]) < j

\* C4: with the log file missing, the run prints the not-found message and
\* nothing else, never opens the file, and ends with status 0.
C4_MissingLog ==
  (script = "parse_logs" /\ ~log.exists) =>
     /\ "open" \notin did
     /\ pc \in {"start", "done"}
     /\ status = 0
     /\ \A p \in DOMAIN out : out[p].kind \notin {"total", "header", "match", "exception"}
     /\ pc = "done" => out = <<NotFoundLine>>

C4_Witness == script = "parse_logs" /\ ~log.exists /\ pc = "done" /\ out = <<NotFoundLine>>

\* C5: with the graph file missing, the converter reports the error and
\* ends with status 1 before any open, parse or conversion step; the output
\* file is not created.
C5_MissingGraph ==
  (script = "export_to_onnx" /\ ~pb.exists) =>
     /\ did \cap {"open", "parse", "convert", "write"} = {}
     /\ ~onnx
     /\ pc \in {"start", "done"}
     /\ pc = "done" => (status = 1 /\ out = <<LoadingLine, ModelNotFoundLine>>)

C5_Witness == script = "export_to_onnx" /\ ~pb.exists /\ pc = "done" /\ status = 1

\* C6: a converter run in which reading, parsing or converting raised ends
\* with the 'Conversion failed' message and status 1; 'Conversion complete'
\* is printed only when the conversion returned without failure, and such a
\* run ends with status 0.
C6_FailureReported ==
  (script = "export_to_onnx" /\ pc = "done") =>
     /\ "raised" \in did =>
          (status = 1 /\ out # <<>> /\ out[Len(out)] = FailedLine)
     /\ \A p \in DOMAIN out :
          out[p] = CompleteLine =>
            ("converted" \in did /\ "raised" \notin did /\ status = 0)

C6_Witness ==
  /\ script = "export_to_onnx" /\ pc = "done"
  /\ {"convert", "raised"} \subseteq did
  /\ out[Len(out)] = FailedLine

\* C7: the inspector prints for a node if and only if its name is exactly
\* "waveform"; a graph without such a node gives no output, and the run of
\* a parsed graph ends with status 0.
C7_OnlyWaveform ==
  (script = "inspect_pb" /\ pc \in {"nodes", "done"} /\ "raised" \notin did) =>
     LET seen == {i \in DOMAIN graph_def : i < idx}
         hits == {i \in seen : graph_def[i].name = "waveform"}
     IN /\ Cardinality({p \in DOMAIN out : out[p].kind = "Node"}) = Cardinality(hits)
        /\ \A p \in DOMAIN out : out[p].kind = "Node" => out[p].msg = Str(<<"waveform">>)
        /\ hits = {} => out = <<>>
        /\ status = 0

C7_Witness ==
  /\ script = "inspect_pb" /\ pc = "done" /\ status = 0
  /\ \E i \in DOMAIN graph_def : graph_def[i].name = "waveform_vocals"
  /\ \A i \in DOMAIN graph_def : graph_def[i].name # "waveform"
  /\ out = <<>>

\* C8: a second run of the log scanner on the same log file prints what the
\* run before it printed and ends with the same status.
C8_Idempotent ==
  (script = "parse_logs" /\ pc = "done" /\ prev.has) =>
     (out = prev.out /\ status = prev.status)

C8_Witness ==
  /\ script = "parse_logs" /\ pc = "done" /\ prev.has
  /\ count = MatchCap /\ idx > 0

\* The first n characters of a text.
FirstChars(text, n) == [j \in 1..Min(Len(text), n) |-> text[j]]

\* C9: every match line of an entry that carries '@x' is followed by one
\* exception line holding the first 200 characters of the field and '...',
\* a match line of an entry without it is not, and every printed match
\* counts as one match.
C9_ExceptionLine ==
  Scanning =>
     /\ count = Len(MatchLines(out))
     /\ \A p \in DOMAIN out :
          IsMatch(out[p]) =>
            LET e == json_loads(lines[LineShown(out[p])]).obj IN
              IF Has(e, "@x")
                THEN /\ p + 1 <= Len(out)
                     /\ out[p + 1].kind = "exception"
                     /\ out[p + 1].msg =
                          Str(FirstChars(Get(e, "@x", None).text, ExceptionChars) \o <<"...">>)
                ELSE p + 1 <= Len(out) => out[p + 1].kind # "exception"

\* C10: every match line shows a record whose own top-level level is Error
\* or Warning and whose message contains 'Spotify'.
C10_OnlyErrorsAndWarnings ==
  script = "parse_logs" =>
     \A p \in DOMAIN out :
        IsMatch(out[p]) =>
          /\ out[p].l \in ErrorOrWarning
          /\ Get(json_loads(lines[LineShown(out[p])]).obj, "@l", None) \in ErrorOrWarning
          /\ Contains(out[p].msg.text, "Spotify")
====
